---- MODULE Spec2Model ----
(***************************************************************************)
(* orbitx flight.py: the lead server tick loop (lead_server_loop), the     *)
(* mirror loop (mirroring_loop) and the exit handling of main.             *)
(*                                                                         *)
(* The main thread is a program counter `pc` walking the statements of     *)
(* flight.py.  The GUI input, the gRPC peers of the lead and the remote    *)
(* lead of a mirror are environment actions interleaved with it.           *)
(***************************************************************************)
EXTENDS Integers, Sequences, FiniteSets, TLC

\* ------------------------------------------------------------------ bounds
MaxCmds == 3       \* commands ever issued by the GUI and the peers together
MaxTime == 8       \* last value of the discrete monotonic clock
MaxLeadTime == 3   \* last value of the clock in a lead's loop
MaxMirrorCmds == 1 \* commands the GUI of a mirror ever collects
MaxStart == 3      \* largest value of the clock when the mirror starts
MaxRemote == 2     \* versions of the remote lead's state a mirror can fetch

\* -------------------------------------------------------- program constants
\* common.TIME_BETWEEN_NETWORK_UPDATES, in clock units; one frame
\* (1 / common.FRAMERATE) is FrameInterval clock units.
TIME_BETWEEN_NETWORK_UPDATES == 2
FrameInterval == 1

NOOP == "NOOP"
Idents == {NOOP, "MOVE"}
Schemes == {"file", "mirror"}
None == "None"

\* Exceptions that can leave a loop.
KeyboardInterrupt == "KeyboardInterrupt"
AttributeError == "AttributeError"
ValueError == "ValueError"
RuntimeError == "RuntimeError"
RpcError == "RpcError"
RequestErrors == {ValueError, RuntimeError}
NoExc == [kind |-> None, origin |-> None]

\* ------------------------------------------------------------ state values
\* An engine state: the snapshot it started from (0 is the savefile, n > 0
\* the n-th version of a remote lead) and the requests handled since.
StateValue(base, hist) == [base |-> base, hist |-> hist]
NullValue == StateValue(-1, <<>>)

\* A reference to a state object: the engine's live object, or an object of
\* its own holding value v.
Live == [kind |-> "live", v |-> NullValue]
Val(v) == [kind |-> "val", v |-> v]
NoRef == [kind |-> "none", v |-> NullValue]

VARIABLES
    scheme,            \* args.data_location.scheme
    no_gui,            \* args.no_gui
    engineAliases,     \* whether PEngine.get_state() hands out its live object
    pc,                \* position of the main thread
    cleanup_function,
    ungraceful_shutdown_handler,
    gui,               \* the state FlightGui was constructed with
    loop,              \* iterations begun, waits made, clock at loop entry
    engine,            \* value of physics_engine's live state object
    state,             \* the loop's local `state` (a reference)
    published,         \* reference held by state_server after notify_state_change
    user_commands,     \* the list built in a lead tick
    idx,               \* commands of user_commands the for loop has consumed
    guiQueue,          \* commands the GUI has collected, not yet popped
    netQueue,          \* commands peers have submitted, not yet popped
    nextUid,           \* commands issued so far
    issued,            \* every command issued, in order
    peerPc, peerRef, peerCount, peerBody,   \* a peer thread reading the state
    networking,
    time_of_last_network_update,
    now,               \* time.monotonic()
    remote,            \* version of the remote lead's state
    exc,               \* the exception that left the loop
    diagnostic,        \* outcome of the generated-file check in main
    exitStatus,        \* -1 while running
    \* history of the calls made on the collaborators
    calls,             \* teardown calls, in order
    applied,           \* commands passed to handle_request, in order
    tick,              \* what the current tick has done
    fetchLog,          \* the fetches: when called, when returned, where from
    peerExpect         \* value the state server held when the peer read began

vars == <<scheme, no_gui, engineAliases, pc, cleanup_function,
          ungraceful_shutdown_handler, gui, loop, engine, state, published,
          user_commands, idx, guiQueue, netQueue, nextUid, issued,
          peerPc, peerRef, peerCount, peerBody,
          networking, time_of_last_network_update, now, remote,
          exc, diagnostic, exitStatus, calls, applied, tick, fetchLog,
          peerExpect>>

mainVars == <<exc, diagnostic, exitStatus, calls>>
moduleVars == <<cleanup_function, ungraceful_shutdown_handler, gui>>
argVars == <<scheme, no_gui, engineAliases>>
peerVars == <<peerPc, peerRef, peerCount, peerBody, peerExpect>>
queueVars == <<guiQueue, netQueue, nextUid, issued>>
mirrorVars == <<networking, time_of_last_network_update, now, remote, fetchLog>>
leadVars == <<published, user_commands, idx>>

\* ----------------------------------------------------------------- helpers
Deref(ref) == IF ref.kind = "live" THEN engine ELSE ref.v

\* PEngine.get_state(): the engine's own object or a snapshot of it.
GetState == IF engineAliases THEN Live ELSE Val(engine)

\* copy.deepcopy(state._proto_state): a new object with the same contents.
ShallowRef(ref) == ref
DeepCopy(ref) == Val(Deref(ref))

\* PEngine.handle_request(command): the request becomes part of the state.
HandleRequest(v, command) == StateValue(v.base, Append(v.hist, command.uid))

\* user_commands: List[network.Request] = []: each tick starts a new list.
KeepCommands(previous) == previous
FreshCommands(previous) == <<>>

\* user_commands += gui.pop_commands(); user_commands += state_server.pop_commands()
CollectNetworkFirst(local, net) == net \o local
CollectCommands(local, net) == local \o net

\* if command.ident == network.Request.NOOP: continue
NeverNoop(command) == FALSE
IsNoop(command) == command.ident = NOOP

RECURSIVE FilterNoop(_)
FilterNoop(s) ==
    IF s = <<>> THEN <<>>
    ELSE IF s[1].ident = NOOP THEN FilterNoop(Tail(s))
    ELSE <<s[1]>> \o FilterNoop(Tail(s))

\* networking and time.monotonic() - time_of_last_network_update > TIME_BETWEEN_NETWORK_UPDATES
FetchWhenDue(net, t, last) == t - last > TIME_BETWEEN_NETWORK_UPDATES
FetchAtLeast(net, t, last) == net /\ t - last >= TIME_BETWEEN_NETWORK_UPDATES
ShouldFetch(net, t, last) == net /\ t - last > TIME_BETWEEN_NETWORK_UPDATES

\* gui.rate(common.FRAMERATE) and time.sleep(1 / common.FRAMERATE): the
\* clock when the wait that began at t is over.
Rate(t) == t + FrameInterval
SleepNever(t) == t
Sleep(t) == t + FrameInterval
FrameWait(nogui, t) == IF nogui THEN Sleep(t) ELSE Rate(t)

\* networking = gui.lead_server_communication_requested(), only with a GUI.
ToggleWithoutGui(nogui, current, requested) == requested
ReadToggle(nogui, current, requested) ==
    IF nogui THEN current ELSE requested

\* flight_gui.FlightGui(state, ...): the state the GUI starts from.
GuiBeforeFetch(ref) == NullValue
FlightGui(ref) == IF ref.kind = "live" THEN engine ELSE ref.v

\* gui.draw(state): the object handed to draw is the one read at the start
\* of the tick.
DrawReread(ref) == IF engineAliases THEN Live ELSE Val(engine)
DrawArg(ref) == ref

\* The attributes parse_args puts on args.
ArgsAttrs == {"data_location", "serve_on_port", "no_gui", "no_intro",
              "verbose", "profile"}

\* What one tick has done so far: the commands popped from the GUI and from
\* the state server, Len(applied) when the tick began, the value handed to
\* notify_state_change, whether mirror_state() was called, what was drawn
\* (its value then, and the object), the object get_state() returned, and
\* the methods of the engine called.
NewTick == [began |-> FALSE, local |-> <<>>, net |-> <<>>, start |-> 0,
            pub |-> NullValue, fetched |-> FALSE, drew |-> FALSE,
            drawn |-> NullValue, read |-> NoRef, drawnRef |-> NoRef,
            engineCalls |-> <<>>]

LeadPcs == {"lead_tick", "lead_collect", "lead_apply"}
MirrorLoopPcs == {"mirror_toggle", "mirror_update", "mirror_render"}
MirrorPcs == {"mirror_connect", "mirror_gui"} \cup MirrorLoopPcs
\* Statements inside the `with` block of either loop.
WithPcs == LeadPcs \cup MirrorPcs

\* ------------------------------------------------------------------- Init
Init ==
    /\ scheme \in Schemes
    /\ no_gui \in BOOLEAN
    /\ engineAliases \in BOOLEAN
    /\ pc = IF scheme = "file" THEN "lead_init" ELSE "mirror_connect"
    /\ cleanup_function = None
    /\ ungraceful_shutdown_handler = None
    /\ gui = NullValue
    /\ loop = [n |-> 0, waits |-> 0, t0 |-> 0]
    /\ engine = NullValue
    /\ state = NoRef
    /\ published = NoRef
    /\ user_commands = <<>>
    /\ idx = 0
    /\ guiQueue = <<>>
    /\ netQueue = <<>>
    /\ nextUid = 0
    /\ issued = <<>>
    /\ peerPc = "idle"
    /\ peerRef = NoRef
    /\ peerCount = 0
    /\ peerBody = NullValue
    /\ peerExpect = NullValue
    /\ networking = TRUE
    /\ time_of_last_network_update = 0
    /\ now \in IF scheme = "file" THEN {0} ELSE 0..MaxStart
    /\ remote = 1
    /\ exc = NoExc
    /\ diagnostic = None
    /\ exitStatus = -1
    /\ calls = <<>>
    /\ applied = <<>>
    /\ tick = NewTick
    /\ fetchLog = <<>>

\* ------------------------------------------------------- leaving the loops
\* __exit__ of the `with` block the loops run in: GrpcServerContext stops the
\* gRPC server, StateClient closes its channel.
WithExit == IF scheme = "file" THEN <<"server.stop">> ELSE <<"client.close">>

\* An exception raised at a statement inside the `with` block unwinds to the
\* try statement of main.  Leaving the block stops the gRPC server, and
\* with it the worker threads serving peers.
RaiseWithoutExit(kind, origin) ==
    /\ exc' = [kind |-> kind, origin |-> origin]
    /\ calls' = calls
    /\ pc' = "main_except"
    /\ peerPc' = "idle"
    /\ peerRef' = NoRef
    /\ peerCount' = 0
    /\ peerBody' = NullValue
    /\ peerExpect' = NullValue
    /\ UNCHANGED <<diagnostic, exitStatus>>
Raise(kind, origin) ==
    /\ exc' = [kind |-> kind, origin |-> origin]
    /\ calls' = calls \o WithExit
    /\ pc' = "main_except"
    /\ peerPc' = "idle"
    /\ peerRef' = NoRef
    /\ peerCount' = 0
    /\ peerBody' = NullValue
    /\ peerExpect' = NullValue
    /\ UNCHANGED <<diagnostic, exitStatus>>

\* Ctrl-C: KeyboardInterrupt is raised in the main thread between any two
\* statements of a loop.
Interrupt ==
    /\ pc \in WithPcs
    /\ Raise(KeyboardInterrupt, pc)
    /\ UNCHANGED <<argVars, loop, moduleVars, engine, state, leadVars, queueVars,
                   mirrorVars, applied, tick>>

\* ------------------------------------------------------------ lead server
\* lines 139-165: engine from the savefile, GUI and its hooks, server start.
LeadInit ==
    /\ pc = "lead_init"
    /\ engine' = StateValue(0, <<>>)
    /\ cleanup_function' = IF no_gui THEN cleanup_function ELSE "gui.shutdown"
    /\ ungraceful_shutdown_handler' =
          IF no_gui THEN ungraceful_shutdown_handler
          ELSE "gui.ungraceful_shutdown"
    /\ gui' = IF no_gui THEN gui ELSE StateValue(0, <<>>)
    /\ loop' = [n |-> 0, waits |-> 0, t0 |-> now]
    /\ pc' = "lead_tick"
    /\ UNCHANGED <<argVars, state, leadVars, queueVars, peerVars, mirrorVars,
                   mainVars, applied, tick>>

\* lines 167-170: read the engine state and publish a deep copy of it.
LeadTick ==
    /\ pc = "lead_tick"
    /\ user_commands' = FreshCommands(user_commands)
    /\ idx' = 0
    /\ state' = GetState
    /\ published' = DeepCopy(GetState)
    /\ tick' = [NewTick EXCEPT !.began = TRUE, !.start = Len(applied),
                             !.pub = engine, !.read = GetState,
                             !.engineCalls = <<"get_state">>]
    /\ loop' = [loop EXCEPT !.n = @ + 1]
    /\ pc' = "lead_collect"
    /\ UNCHANGED <<argVars, moduleVars, engine, queueVars, peerVars,
                   mirrorVars, mainVars, applied>>

\* lines 172-174: the GUI's commands, then the state server's.
LeadCollect ==
    /\ pc = "lead_collect"
    /\ LET local == IF no_gui THEN <<>> ELSE guiQueue
       IN /\ user_commands' = CollectCommands(local, netQueue)
          /\ tick' = [tick EXCEPT !.local = local, !.net = netQueue]
    /\ guiQueue' = IF no_gui THEN guiQueue ELSE <<>>
    /\ netQueue' = <<>>
    /\ pc' = "lead_apply"
    /\ UNCHANGED <<argVars, loop, moduleVars, engine, state, published, idx,
                   nextUid, issued, peerVars, mirrorVars, mainVars, applied>>

\* lines 178-182: one iteration of the for loop.  handle_request either
\* returns or raises.
LeadApply ==
    /\ pc = "lead_apply"
    /\ idx < Len(user_commands)
    /\ LET command == user_commands[idx + 1]
       IN IF IsNoop(command)
          THEN /\ idx' = idx + 1
               /\ UNCHANGED <<engine, applied, pc, mainVars, tick, peerVars>>
          ELSE /\ applied' = Append(applied, command)
               /\ tick' = [tick EXCEPT
                              !.engineCalls = Append(@, "handle_request")]
               /\ \/ /\ engine' = HandleRequest(engine, command)
                     /\ idx' = idx + 1
                     /\ UNCHANGED <<pc, mainVars, peerVars>>
                  \/ /\ \E e \in RequestErrors : Raise(e, "handle_request")
                     /\ UNCHANGED <<engine, idx>>
    /\ UNCHANGED <<argVars, loop, moduleVars, state, published, user_commands,
                   queueVars, mirrorVars>>

\* lines 184-188: after the for loop, draw and wait for the next frame.
LeadRender ==
    /\ pc = "lead_apply"
    /\ idx = Len(user_commands)
    /\ tick' = IF no_gui THEN tick
               ELSE [tick EXCEPT !.drew = TRUE,
                                 !.drawn = Deref(DrawArg(state)),
                                 !.drawnRef = DrawArg(state)]
    /\ FrameWait(no_gui, now) <= MaxLeadTime
    /\ now' = FrameWait(no_gui, now)
    /\ loop' = [loop EXCEPT !.waits = @ + 1]
    /\ pc' = "lead_tick"
    /\ UNCHANGED <<argVars, moduleVars, engine, state, leadVars, queueVars,
                   peerVars, networking, time_of_last_network_update, remote,
                   fetchLog, mainVars, applied>>

\* ------------------------------------------------------------ environment
NewCommand(ident, src) == [ident |-> ident, uid |-> nextUid + 1, src |-> src]

\* The GUI thread collects a command from the user.
GuiInput ==
    /\ ~no_gui
    /\ pc \in LeadPcs \cup MirrorLoopPcs
    /\ nextUid < IF scheme = "file" THEN MaxCmds ELSE MaxMirrorCmds
    /\ \E ident \in Idents :
          /\ guiQueue' = Append(guiQueue, NewCommand(ident, "gui"))
          /\ issued' = Append(issued, NewCommand(ident, "gui"))
    /\ nextUid' = nextUid + 1
    /\ UNCHANGED <<argVars, loop, moduleVars, pc, engine, state, leadVars, netQueue,
                   peerVars, mirrorVars, mainVars, applied, tick>>

\* A gRPC worker thread queues a command a peer sent.
PeerSubmit ==
    /\ scheme = "file"
    /\ pc \in LeadPcs
    /\ nextUid < MaxCmds
    /\ \E ident \in Idents :
          /\ netQueue' = Append(netQueue, NewCommand(ident, "net"))
          /\ issued' = Append(issued, NewCommand(ident, "net"))
    /\ nextUid' = nextUid + 1
    /\ UNCHANGED <<argVars, loop, moduleVars, pc, engine, state, leadVars, guiQueue,
                   peerVars, mirrorVars, mainVars, applied, tick>>

\* A gRPC worker thread serves the latest state: it takes the reference the
\* state server holds, then reads the object behind it in two steps.
PeerGetRef ==
    /\ scheme = "file"
    /\ pc \in LeadPcs
    /\ published # NoRef
    /\ peerPc \in {"idle", "done"}
    /\ peerRef' = published
    /\ peerExpect' = Deref(published)
    /\ peerCount' = 0
    /\ peerBody' = NullValue
    /\ peerPc' = "ref"
    /\ UNCHANGED <<argVars, loop, moduleVars, pc, engine, state, leadVars, queueVars,
                   mirrorVars, mainVars, applied, tick>>

PeerReadCount ==
    /\ peerPc = "ref"
    /\ pc \in LeadPcs
    /\ peerCount' = Len(Deref(peerRef).hist)
    /\ peerPc' = "count"
    /\ UNCHANGED <<argVars, loop, moduleVars, pc, engine, state, leadVars, queueVars,
                   peerRef, peerBody, peerExpect, mirrorVars, mainVars,
                   applied, tick>>

PeerReadBody ==
    /\ peerPc = "count"
    /\ pc \in LeadPcs
    /\ peerBody' = Deref(peerRef)
    /\ peerPc' = "done"
    /\ UNCHANGED <<argVars, loop, moduleVars, pc, engine, state, leadVars, queueVars,
                   peerRef, peerCount, peerExpect, mirrorVars, mainVars,
                   applied, tick>>

\* ------------------------------------------------------------------ mirror
\* mirror_state(): the state of the remote lead, as it is now.
MirrorState == StateValue(remote, <<>>)

\* A fetch blocks for FetchTimes clock units.
FetchTimes == {0, 1}

Fetch(called, returned, startup) ==
    [called |-> called, returned |-> returned, startup |-> startup,
     value |-> MirrorState]

\* time_of_last_network_update = time.monotonic(), read after the fetch.
TimeBeforeFetch(called, returned) == called
TimeOfUpdate(called, returned) == returned

\* lines 195-203: enter the `with` block, fetch once, build the engine.
MirrorConnect ==
    /\ pc = "mirror_connect"
    /\ \/ \E d \in FetchTimes :
            /\ now + d <= MaxTime
            /\ now' = now + d
            /\ fetchLog' = Append(fetchLog, Fetch(now, now + d, TRUE))
            /\ state' = Val(MirrorState)
            /\ engine' = MirrorState
            /\ time_of_last_network_update' = 0
            /\ networking' = TRUE
            /\ pc' = "mirror_gui"
            /\ UNCHANGED <<mainVars, peerVars>>
       \/ /\ Raise(RpcError, "mirror_connect")
          /\ UNCHANGED <<now, fetchLog, state, engine,
                         time_of_last_network_update, networking>>
    /\ UNCHANGED <<argVars, loop, moduleVars, leadVars, queueVars, remote,
                   applied, tick>>

\* lines 205-210: the GUI, and its shutdown as the cleanup function.
MirrorGui ==
    /\ pc = "mirror_gui"
    /\ cleanup_function' = IF no_gui THEN cleanup_function ELSE "gui.shutdown"
    /\ gui' = IF no_gui THEN gui ELSE FlightGui(state)
    /\ loop' = [n |-> 0, waits |-> 0, t0 |-> now]
    /\ pc' = "mirror_toggle"
    /\ UNCHANGED <<argVars, ungraceful_shutdown_handler, engine, state,
                   leadVars, queueVars, peerVars, mirrorVars, mainVars,
                   applied, tick>>

\* lines 213-221: the tick starts by reading the user's networking toggle.
MirrorToggle ==
    /\ pc = "mirror_toggle"
    /\ \E requested \in BOOLEAN :
          networking' = ReadToggle(no_gui, networking, requested)
    /\ tick' = [NewTick EXCEPT !.began = TRUE, !.start = Len(applied)]
    /\ loop' = [loop EXCEPT !.n = @ + 1]
    /\ pc' = "mirror_update"
    /\ UNCHANGED <<argVars, moduleVars, engine, state, leadVars, queueVars,
                   peerVars, time_of_last_network_update, now, remote,
                   fetchLog, mainVars, applied>>

\* lines 223-230: fetch when networking and due, else read the engine.
MirrorUpdate ==
    /\ pc = "mirror_update"
    /\ IF ShouldFetch(networking, now, time_of_last_network_update)
       THEN \/ \E d \in FetchTimes :
                 /\ now + d <= MaxTime
                 /\ now' = now + d
                 /\ fetchLog' = Append(fetchLog, Fetch(now, now + d, FALSE))
                 /\ state' = Val(MirrorState)
                 /\ engine' = MirrorState
                 /\ time_of_last_network_update' = TimeOfUpdate(now, now + d)
                 /\ tick' = [tick EXCEPT !.fetched = TRUE,
                                          !.engineCalls = <<"set_state">>]
                 /\ pc' = "mirror_render"
                 /\ UNCHANGED <<mainVars, peerVars>>
            \/ /\ Raise(RpcError, "mirror_state")
               /\ fetchLog' = Append(fetchLog, Fetch(now, now, FALSE))
               /\ tick' = [tick EXCEPT !.fetched = TRUE]
               /\ UNCHANGED <<now, state, engine, time_of_last_network_update>>
       ELSE /\ state' = GetState
            /\ tick' = [tick EXCEPT !.read = GetState,
                                     !.engineCalls = <<"get_state">>]
            /\ pc' = "mirror_render"
            /\ UNCHANGED <<now, fetchLog, engine, time_of_last_network_update,
                           mainVars, peerVars>>
    /\ UNCHANGED <<argVars, loop, moduleVars, leadVars, queueVars,
                   networking, remote, applied>>

RECURSIVE HandleAll(_, _)
HandleAll(v, commands) ==
    IF commands = <<>> THEN v
    ELSE HandleAll(HandleRequest(v, Head(commands)), Tail(commands))

\* lines 232-241: draw; when not networking, take the user's commands from
\* args.pop_commands() and hand each to the engine; wait for the next frame.
\* args is the argparse namespace: the attribute lookup raises AttributeError
\* unless parse_args put pop_commands on it.
MirrorRender ==
    /\ pc = "mirror_render"
    /\ LET drew == IF no_gui THEN tick
                   ELSE [tick EXCEPT !.drew = TRUE,
                                     !.drawn = Deref(DrawArg(state)),
                                     !.drawnRef = DrawArg(state)]
       IN IF ~no_gui /\ ~networking /\ "pop_commands" \notin ArgsAttrs
          THEN /\ Raise(AttributeError, "args.pop_commands")
               /\ tick' = drew
               /\ UNCHANGED <<engine, applied, guiQueue, now, loop>>
          ELSE /\ FrameWait(no_gui, now) <= MaxTime
               /\ now' = FrameWait(no_gui, now)
               /\ loop' = [loop EXCEPT !.waits = @ + 1]
               /\ IF ~no_gui /\ ~networking
                  THEN /\ engine' = HandleAll(engine, guiQueue)
                       /\ applied' = applied \o guiQueue
                       /\ guiQueue' = <<>>
                       /\ tick' = [drew EXCEPT
                                      !.local = guiQueue,
                                      !.engineCalls =
                                         @ \o [i \in DOMAIN guiQueue |->
                                                  "handle_request"]]
                  ELSE /\ tick' = drew
                       /\ UNCHANGED <<engine, applied, guiQueue>>
               /\ pc' = "mirror_toggle"
               /\ UNCHANGED <<mainVars, peerVars>>
    /\ UNCHANGED <<argVars, moduleVars, state, leadVars, netQueue, nextUid,
                   issued, networking, time_of_last_network_update,
                   remote, fetchLog>>

\* The remote lead's simulation moves on.
RemoteAdvance ==
    /\ scheme = "mirror"
    /\ pc \in MirrorPcs
    /\ remote < MaxRemote
    /\ remote' = remote + 1
    /\ UNCHANGED <<argVars, loop, moduleVars, pc, engine, state, leadVars, queueVars,
                   peerVars, networking, time_of_last_network_update, now,
                   fetchLog, mainVars, applied, tick>>

\* -------------------------------------------------------------------- main
\* line 287-288: the ungraceful shutdown hook runs for any Exception.
NoUngraceful(kind, handler) == <<>>
UngracefulCalls(kind, handler) ==
    IF kind # KeyboardInterrupt /\ handler # None THEN <<handler>> ELSE <<>>

\* lines 290-303: AttributeError and ValueError have the generated protobuf
\* file compared with its source.
Diagnostics(kind) ==
    IF kind \in {AttributeError, ValueError}
    THEN {"missing", "proto_newer", "up_to_date"}
    ELSE {"not_checked"}

\* lines 280-313: whether the exception leaves main.  KeyboardInterrupt is
\* passed over; each branch of the diagnostic ends in a bare raise.
PropagatesAll(kind, d) == TRUE
Propagates(kind, d) ==
    CASE kind = KeyboardInterrupt -> FALSE
      [] d = "up_to_date" -> TRUE
      [] d \in {"missing", "proto_newer"} -> TRUE
      [] OTHER -> TRUE

\* lines 314-316: finally.
NoCleanup(fn) == <<>>
CleanupCalls(fn) == IF fn # None THEN <<fn>> ELSE <<>>

MainExcept ==
    /\ pc = "main_except"
    /\ calls' = calls \o UngracefulCalls(exc.kind, ungraceful_shutdown_handler)
    /\ IF exc.kind = KeyboardInterrupt THEN UNCHANGED diagnostic
       ELSE \E d \in Diagnostics(exc.kind) : diagnostic' = d
    /\ pc' = "main_finally"
    /\ UNCHANGED <<argVars, loop, moduleVars, engine, state, leadVars, queueVars,
                   peerVars, mirrorVars, exc, exitStatus, applied, tick>>

MainFinally ==
    /\ pc = "main_finally"
    /\ calls' = calls \o CleanupCalls(cleanup_function)
    /\ exitStatus' = IF Propagates(exc.kind, diagnostic) THEN 1 ELSE 0
    /\ pc' = "exit"
    /\ UNCHANGED <<argVars, loop, moduleVars, engine, state, leadVars, queueVars,
                   peerVars, mirrorVars, exc, diagnostic, applied, tick>>

Next ==
    \/ LeadInit \/ LeadTick \/ LeadCollect \/ LeadApply \/ LeadRender
    \/ GuiInput \/ PeerSubmit \/ PeerGetRef \/ PeerReadCount \/ PeerReadBody
    \/ MirrorConnect \/ MirrorGui \/ MirrorToggle \/ MirrorUpdate
    \/ MirrorRender \/ RemoteAdvance
    \/ Interrupt \/ MainExcept \/ MainFinally

Spec == Init /\ [][Next]_vars

\* ================================================================== claims
Count(s, x) == Cardinality({i \in DOMAIN s : s[i] = x})
IsPrefix(s, t) == Len(s) <= Len(t) /\ s = SubSeq(t, 1, Len(s))
\* The commands passed to handle_request since the current tick began.
TickApplied == SubSeq(applied, tick.start + 1, Len(applied))
TickCollected == tick.local \o tick.net
Exited == pc = "exit"

\* C1: in the lead loop the commands handed to handle_request in a tick are
\* the non-NOOP elements of L ++ N (L popped from the GUI, N from the state
\* server), in that order: a prefix of them while the for loop runs, all of
\* them once the for loop is over; and no command is handed over twice.
C1_LeadAppliesLocalThenNetwork ==
    scheme = "file" =>
        /\ IsPrefix(TickApplied, FilterNoop(TickCollected))
        /\ (pc = "lead_tick" \/ (pc = "lead_apply" /\ idx = Len(user_commands)))
              => TickApplied = FilterNoop(TickCollected)
        /\ \A i, j \in DOMAIN applied :
              i # j => applied[i].uid # applied[j].uid

C1_Witness ==
    /\ scheme = "file"
    /\ pc = "lead_tick"
    /\ Len(tick.local) = 1
    /\ tick.local[1].ident = "MOVE"
    /\ Len(tick.net) = 2
    /\ tick.net[1].ident = NOOP
    /\ tick.net[2].ident = "MOVE"
    /\ TickApplied = <<tick.local[1], tick.net[2]>>

\* C2: in a tick of the mirror loop, Local mode issues no fetch and Networked
\* mode hands no command to handle_request.
C2_ModeSeparation ==
    (scheme = "mirror" /\ tick.began) =>
        /\ ~networking => ~tick.fetched
        /\ networking => TickApplied = <<>>

C2_Witness ==
    /\ scheme = "mirror"
    /\ ~networking
    /\ pc = "mirror_render"
    /\ now - time_of_last_network_update > TIME_BETWEEN_NETWORK_UPDATES
    /\ ~tick.fetched
    /\ guiQueue # <<>>
    /\ \E i \in DOMAIN fetchLog : ~fetchLog[i].startup

FatalInLead ==
    /\ Exited
    /\ scheme = "file"
    /\ ~no_gui
    /\ exc.origin = "handle_request"

\* C3 as stated: a fatal error in handle_request ends the run with one call
\* to ungraceful_shutdown(), no call to shutdown(), and a non-zero exit.
C3_NoNormalShutdown ==
    FatalInLead =>
        /\ Count(calls, "gui.ungraceful_shutdown") = 1
        /\ Count(calls, "gui.shutdown") = 0
        /\ exitStatus = 1

\* C3, amended: a fatal error in handle_request ends the run with one call
\* to ungraceful_shutdown(), then one call to shutdown() made by the finally
\* clause of main, and a non-zero exit.
C3_UngracefulThenShutdown ==
    FatalInLead =>
        /\ calls = <<"server.stop", "gui.ungraceful_shutdown", "gui.shutdown">>
        /\ exitStatus = 1

C3_Witness == FatalInLead /\ exc.kind = RuntimeError /\ Len(applied) = 2

\* C4: a fetch that fails in a tick of the mirror loop leaves the loop
\* running.
C4_FetchFailureKeepsLoop ==
    (exc.kind = RpcError /\ exc.origin = "mirror_state") => pc \in MirrorLoopPcs

InterruptedLoop ==
    /\ Exited
    /\ exc.kind = KeyboardInterrupt
    /\ exc.origin \in LeadPcs \cup MirrorLoopPcs
    /\ ~no_gui

\* C5: a loop with a renderer ended by KeyboardInterrupt exits with status
\* 0, one call to shutdown() and no call to ungraceful_shutdown().
C5_InterruptExitsCleanly ==
    InterruptedLoop =>
        /\ exitStatus = 0
        /\ Count(calls, "gui.shutdown") = 1
        /\ Count(calls, "gui.ungraceful_shutdown") = 0

C5_Witness == InterruptedLoop /\ scheme = "mirror" /\ Len(fetchLog) = 2

\* C6 as stated: any two fetches, the startup fetch included, are more than
\* TIME_BETWEEN_NETWORK_UPDATES apart.
C6_AllFetchesSpaced ==
    \A i, j \in DOMAIN fetchLog :
        i < j => fetchLog[j].called - fetchLog[i].called
                    > TIME_BETWEEN_NETWORK_UPDATES

\* C6, amended: any two fetches made inside the loop are more than
\* TIME_BETWEEN_NETWORK_UPDATES apart (the later one is called more than the
\* interval after the earlier one returned); with a renderer every tick
\* draws, and a tick without a fetch draws the engine's current state.
C6_LoopFetchesSpaced ==
    scheme = "mirror" =>
        /\ \A i, j \in DOMAIN fetchLog :
              (i < j /\ ~fetchLog[i].startup /\ ~fetchLog[j].startup)
                 => fetchLog[j].called - fetchLog[i].returned
                       > TIME_BETWEEN_NETWORK_UPDATES
        /\ (~no_gui /\ tick.began /\ pc = "mirror_toggle") => tick.drew
        /\ (tick.drew /\ ~tick.fetched) => tick.drawn = engine

C6_Witness ==
    /\ scheme = "mirror"
    /\ pc = "mirror_toggle"
    /\ Len(fetchLog) = 3
    /\ tick.drew
    /\ ~tick.fetched
    /\ networking
    /\ tick.drawn = fetchLog[3].value

\* C7: no command whose ident is NOOP is ever handed to handle_request, in
\* either loop.
C7_NoNoopReachesEngine ==
    \A i \in DOMAIN applied : applied[i].ident # NOOP

C7_Witness ==
    /\ scheme = "file"
    /\ pc = "lead_tick"
    /\ \E i \in DOMAIN tick.local : tick.local[i].ident = NOOP
    /\ \E i \in DOMAIN tick.net : tick.net[i].ident = NOOP
    /\ Len(TickApplied) = 1

\* C8: a mirror toggled to Local is still running, with the last fetched
\* snapshot (plus the commands applied since) as its engine state, so
\* that it re-enters Networked from that state.
C8_LocalKeepsBaseForReentry ==
    (scheme = "mirror" /\ tick.began /\ ~networking) =>
        /\ exc.kind \in {None, KeyboardInterrupt}
        /\ engine.base = fetchLog[Len(fetchLog)].value.base

\* C9: a peer that reads the published state while the lead loop runs gets
\* one whole snapshot, the one the state server held when the read began;
\* and what the state server holds stays the value published at the start
\* of the tick whatever handle_request does to the engine afterwards.
C9_PeersSeeWholeSnapshots ==
    scheme = "file" =>
        /\ peerPc = "done" =>
              /\ peerCount = Len(peerBody.hist)
              /\ peerBody = peerExpect
        /\ published # NoRef => Deref(published) = tick.pub

C9_Witness ==
    /\ scheme = "file"
    /\ engineAliases
    /\ pc = "lead_apply"
    /\ peerPc = "done"
    /\ peerExpect = tick.pub
    /\ Len(engine.hist) = Len(tick.pub.hist) + 2

InterruptedLead ==
    /\ Exited
    /\ scheme = "file"
    /\ exc.kind = KeyboardInterrupt

\* C10 as stated: after an interrupt every command collected in the tick
\* has been applied before the loop stops.
C10_TickCompletesBeforeStop ==
    InterruptedLead => TickApplied = FilterNoop(TickCollected)

\* C10, amended: the loop stops at the statement the interrupt arrives at:
\* of the commands collected in that tick exactly those the for loop had
\* already consumed have been applied, the rest are dropped; the exit path
\* of main then runs once (the server is stopped or the client closed once,
\* the cleanup function is called once when there is one).
C10_StopsAtInterrupt ==
    exc.kind = KeyboardInterrupt =>
        /\ TickApplied = FilterNoop(SubSeq(TickCollected, 1, idx))
        /\ Exited =>
              /\ calls = <<IF scheme = "file" THEN "server.stop"
                           ELSE "client.close">> \o
                         (IF cleanup_function = None THEN <<>>
                          ELSE <<"gui.shutdown">>)
              /\ exitStatus = 0

C10_Witness ==
    /\ InterruptedLead
    /\ ~no_gui
    /\ idx = 1
    /\ Len(user_commands) = 3
    /\ Len(TickApplied) = 1
    /\ FilterNoop(TickCollected) = TickCollected

\* A loop whose renderer exists was left by an exception that is not a
\* KeyboardInterrupt, and main has run to its end.
FatalWithRenderer ==
    /\ Exited
    /\ ~no_gui
    /\ gui # NullValue
    /\ exc.kind \notin {None, KeyboardInterrupt}

\* C11: in every role that has a renderer, an exception other than
\* KeyboardInterrupt that escapes the loop triggers the renderer's
\* ungraceful-shutdown hook once and is then re-raised (non-zero exit),
\* whichever diagnostic branch main takes.
C11_EveryRoleUngraceful ==
    FatalWithRenderer =>
        /\ Count(calls, "gui.ungraceful_shutdown") = 1
        /\ exitStatus = 1

\* The mirror has entered its `with` block and no tick has begun.
MirrorStarting == scheme = "mirror" /\ pc \in MirrorPcs /\ loop.n = 0

\* C12: a mirror starts Networked and makes exactly one fetch, the startup
\* fetch, before its renderer is constructed and before anything is drawn;
\* the engine and the renderer are initialised from that snapshot.
C12_StartupFetchFirst ==
    /\ MirrorStarting =>
          /\ networking
          /\ ~tick.drew
          /\ Len(fetchLog) = IF pc = "mirror_connect" THEN 0 ELSE 1
          /\ pc = "mirror_toggle" /\ ~no_gui => gui # NullValue
    /\ scheme = "mirror" /\ fetchLog # <<>> =>
          /\ fetchLog[1].startup
          /\ \A i \in 2..Len(fetchLog) : ~fetchLog[i].startup
          /\ MirrorStarting => engine = fetchLog[1].value
    /\ scheme = "mirror" /\ gui # NullValue =>
          /\ fetchLog # <<>>
          /\ gui = fetchLog[1].value

C12_Witness ==
    /\ MirrorStarting
    /\ pc = "mirror_toggle"
    /\ ~no_gui
    /\ gui = fetchLog[1].value
    /\ engine = gui
    /\ remote # gui.base

Ceil(a, b) == (a + b - 1) \div b
\* A tick has begun and has not reached the end of its iteration.
InsideTick == pc \in {"lead_collect", "lead_apply", "mirror_update",
                      "mirror_render"}
BetweenTicks == pc \in {"lead_tick", "mirror_toggle"}

\* C13: every iteration of either loop, with or without a renderer, passes
\* through exactly one frame wait before the next one begins, so over a run
\* of duration T the loop body is entered at most ceil(T / F) + 1 times.
C13_RateLimited ==
    /\ loop.n <= Ceil(now - loop.t0, FrameInterval) + 1
    /\ loop.waits * FrameInterval <= now - loop.t0
    /\ BetweenTicks => loop.waits = loop.n
    /\ InsideTick => loop.waits = loop.n - 1
    /\ loop.waits \in {loop.n - 1, loop.n}

C13_Witness ==
    /\ scheme = "file"
    /\ no_gui
    /\ pc = "lead_collect"
    /\ loop.n = 3
    /\ loop.n = Ceil(now - loop.t0, FrameInterval) + 1

\* A Local tick of a mirror with a renderer has drawn its frame and gone
\* on to the user-input step.
LocalTickPastDraw ==
    /\ scheme = "mirror"
    /\ ~no_gui
    /\ ~networking
    /\ tick.drew

\* C14: in a Local tick of a mirror with a renderer, the commands the
\* renderer's pop_commands() returns are collected and applied to the
\* engine in order, and the tick completes normally.
C14_LocalTickAppliesInput ==
    LocalTickPastDraw =>
        /\ exc.kind # AttributeError
        /\ TickApplied = tick.local

\* The engine state after the savefile has handled the first n requests
\* ever handed to handle_request.
StateAfter(n) == HandleAll(StateValue(0, <<>>), SubSeq(applied, 1, n))

FromPeer(command) == command.src = "net" /\ ~IsNoop(command)
\* The non-NOOP commands peers have sent, in the order they were queued;
\* those handed to handle_request; those popped in this tick that the for
\* loop has not reached; those still in the state server's queue.
NetIssued == SelectSeq(issued, FromPeer)
NetApplied == SelectSeq(applied, FromPeer)
NetInTick == SelectSeq(SubSeq(user_commands, idx + 1, Len(user_commands)),
                       FromPeer)
NetQueued == SelectSeq(netQueue, FromPeer)

\* C16: while the lead loop runs, with peers queueing commands at any point
\* of a tick, every non-NOOP network command is in exactly one place: already
\* applied, popped by this tick's drain and waiting for the for loop, or in
\* the queue for the next drain; none is lost or applied twice, and they are
\* applied in the order they were queued.  A command queued after a tick's
\* drain is not applied in that tick.
C16_NetCommandsOnce ==
    scheme = "file" /\ pc \in LeadPcs =>
        /\ NetIssued = NetApplied \o NetInTick \o NetQueued
        /\ \A i, j \in DOMAIN applied :
              applied[i].uid = applied[j].uid => i = j
        /\ \A i \in DOMAIN TickApplied :
              FromPeer(TickApplied[i]) =>
                  \E j \in DOMAIN tick.net : tick.net[j] = TickApplied[i]

C16_Witness ==
    /\ scheme = "file"
    /\ pc = "lead_apply"
    /\ idx = Len(user_commands)
    /\ tick.start = 1
    /\ Len(NetApplied) = 2
    /\ Len(TickApplied) = 1
    /\ Len(NetQueued) = 1

RendererTeardown == {"gui.shutdown", "gui.ungraceful_shutdown"}

\* C17: however a loop is left (interrupt, exception in the tick body,
\* failure of the startup fetch), the `with` block releases the network
\* resource (the lead's gRPC server is stopped, the mirror's client is
\* closed) exactly once, and before main tears the renderer down; inside
\* the block it has not been released.
C17_NetworkReleasedOnceFirst ==
    /\ pc \in WithPcs => calls = <<>>
    /\ pc \in {"main_except", "main_finally", "exit"} =>
          /\ Count(calls, WithExit[1]) = 1
          /\ calls[1] = WithExit[1]
          /\ \A i \in DOMAIN calls :
                calls[i] \in RendererTeardown => i > 1

C17_Witness ==
    /\ Exited
    /\ scheme = "mirror"
    /\ exc.kind = RpcError
    /\ exc.origin # "mirror_connect"
    /\ calls = <<"client.close", "gui.shutdown">>

LastFetch == fetchLog[Len(fetchLog)]
\* The current tick of the mirror called mirror_state() and got a snapshot.
FetchedInTick ==
    /\ scheme = "mirror"
    /\ tick.fetched
    /\ ~(exc.kind = RpcError /\ exc.origin = "mirror_state")

\* C18: in a mirror tick that fetches, from the fetch to the end of the
\* tick the engine's state is the fetched snapshot and nothing else (set by
\* set_state, no request handled on top of it), the frame drawn in that
\* tick shows the fetched snapshot, and time_of_last_network_update is the
\* clock read after the fetch returned.
C18_FetchOverwritesEngine ==
    FetchedInTick =>
        /\ ~LastFetch.startup
        /\ engine = LastFetch.value
        /\ engine.hist = <<>>
        /\ tick.engineCalls = <<"set_state">>
        /\ time_of_last_network_update = LastFetch.returned
        /\ tick.drew => tick.drawn = LastFetch.value

C18_Witness ==
    /\ FetchedInTick
    /\ pc = "mirror_toggle"
    /\ tick.drew
    /\ Len(fetchLog) = 3
    /\ LastFetch.returned > LastFetch.called
    /\ LastFetch.value # fetchLog[1].value

HeadlessMirror == scheme = "mirror" /\ no_gui
\* The statement the main thread is at, or was at when the loop was left.
Position == IF pc \in WithPcs THEN pc ELSE exc.origin

\* C19: a mirror without a renderer is Networked in every state: networking
\* is never False, no command is ever handed to the engine, and in each
\* tick the only call on the engine is set_state after a fetch, get_state
\* when no fetch is due.
C19_HeadlessAlwaysNetworked ==
    HeadlessMirror =>
        /\ networking
        /\ applied = <<>>
        /\ engine.hist = <<>>
        /\ ~tick.drew
        /\ tick.engineCalls =
              IF ~tick.began \/ Position = "mirror_update" THEN <<>>
              ELSE IF ~tick.fetched THEN <<"get_state">>
              ELSE IF FetchedInTick THEN <<"set_state">>
              ELSE <<>>

C19_Witness ==
    /\ HeadlessMirror
    /\ pc = "mirror_toggle"
    /\ Len(fetchLog) = 2
    /\ loop.n = 3
    /\ tick.engineCalls = <<"get_state">>

====
